---- MODULE Spec2Model ----
(***************************************************************************)
(* Weather retrieval pipeline of barlevo/Weather-Data-Module:              *)
(* Location.to_query, MemoryCache, WeatherService (get_current_weather,    *)
(* get_current_weather_bulk, _apply_units), WeatherClient (single and     *)
(* bulk requests, parsing of the answer) and run_pipeline.                 *)
(*                                                                         *)
(* Python's Optional[T] is a sequence of length at most one: None is <<>>  *)
(* and a value v is <<v>>.  Temperatures are fixed-point numbers in        *)
(* hundredths of a degree, coordinates in tenths of a degree, time in      *)
(* whole seconds.                                                          *)
(***************************************************************************)
EXTENDS Integers, Sequences, FiniteSets, TLC

VARIABLES
    now,            \* time.time(), the clock MemoryCache reads
    cache,          \* MemoryCache.cache: key -> [value, expires_at]
    has_cache,      \* WeatherService.cache is not None
    cache_ttl,      \* WeatherService.cache_ttl
    default_units,  \* WeatherService.default_units
    last,           \* the last call made: its arguments, locals and outcome
    threads         \* the calls in progress on threads: thread -> position and locals

vars == <<now, cache, has_cache, cache_ttl, default_units, last, threads>>

(***************************************************************************)
(* Bounds                                                                  *)
(***************************************************************************)
MaxTime == 3
MaxTtl == 2
MaxDelay == 1

(***************************************************************************)
(* Python values                                                           *)
(***************************************************************************)
None == <<>>

Some(v) == <<v>>

\* a call that returned v
Return(v) == [ok |-> TRUE, ret |-> v]

\* a call that raised exception e
Raise(e) == [ok |-> FALSE, err |-> e]

\* truth value of an Optional[str]: None and "" are falsy
TruthyStr(o) == o # None /\ o[1] # ""

\* truth value of an Optional[float]: None and 0.0 are falsy
TruthyNum(o) == o # None /\ o[1] # 0

\* str.upper() on the unit strings callers pass
Upper(s) ==
    CASE s = "c" -> "C"
      [] s = "f" -> "F"
      [] s = "k" -> "K"
      [] s = "both" -> "BOTH"
      [] s = "Both" -> "BOTH"
      [] s = "all" -> "ALL"
      [] s = "x" -> "X"
      [] OTHER -> s

\* str(float) of a coordinate held in tenths: 515 -> "51.5", 0 -> "0.0", -1 -> "-0.1"
FloatStr(n) ==
    LET a == IF n < 0 THEN 0 - n ELSE n
    IN  (IF n < 0 THEN "-" ELSE "") \o ToString(a \div 10) \o "." \o ToString(a % 10)

(***************************************************************************)
(* models.py: Location                                                     *)
(***************************************************************************)
Location(city, country, state, zip_code, ip_address, latitude, longitude) ==
    [city |-> city, country |-> country, state |-> state, zip_code |-> zip_code,
     ip_address |-> ip_address, latitude |-> latitude, longitude |-> longitude]

to_query_empty_ok(self) ==
    IF TruthyNum(self.latitude) /\ TruthyNum(self.longitude)
    THEN Return(FloatStr(self.latitude[1]) \o "," \o FloatStr(self.longitude[1]))
    ELSE IF TruthyStr(self.zip_code) THEN Return(self.zip_code[1])
    ELSE IF TruthyStr(self.ip_address) THEN Return(self.ip_address[1])
    ELSE IF TruthyStr(self.city) /\ TruthyStr(self.country)
    THEN Return(self.city[1] \o "," \o self.country[1])
    ELSE IF TruthyStr(self.city) /\ TruthyStr(self.state)
    THEN Return(self.city[1] \o "," \o self.state[1])
    ELSE IF TruthyStr(self.city) THEN Return(self.city[1])
    ELSE IF TruthyStr(self.state) THEN Return(self.state[1])
    ELSE IF TruthyStr(self.country) THEN Return(self.country[1])
    ELSE Return("")

\* the exception of line 34
InvalidLocation ==
    [type |-> "ValueError", message |-> "Location must have at least one valid attribute."]

to_query(self) ==
    IF TruthyNum(self.latitude) /\ TruthyNum(self.longitude)
    THEN Return(FloatStr(self.latitude[1]) \o "," \o FloatStr(self.longitude[1]))
    ELSE IF TruthyStr(self.zip_code) THEN Return(self.zip_code[1])
    ELSE IF TruthyStr(self.ip_address) THEN Return(self.ip_address[1])
    ELSE IF TruthyStr(self.city) /\ TruthyStr(self.country)
    THEN Return(self.city[1] \o "," \o self.country[1])
    ELSE IF TruthyStr(self.city) /\ TruthyStr(self.state)
    THEN Return(self.city[1] \o "," \o self.state[1])
    ELSE IF TruthyStr(self.city) THEN Return(self.city[1])
    ELSE IF TruthyStr(self.state) THEN Return(self.state[1])
    ELSE IF TruthyStr(self.country) THEN Return(self.country[1])
    ELSE Raise(InvalidLocation)

(***************************************************************************)
(* models.py: WeatherData                                                  *)
(***************************************************************************)
WeatherData(country, state, city, temp_c, temp_f, temp_k, clouds, humidity) ==
    [country |-> country, state |-> state, city |-> city,
     time_zone |-> Some("Europe/London"),
     temp_c |-> temp_c, temp_f |-> temp_f, temp_k |-> temp_k,
     clouds |-> clouds, wind_speed_kph |-> 125,
     wind_degree |-> None, wind_dir |-> Some("SW"),
     pressure_mb |-> Some(1012), pressure_in |-> None,
     precip_mm |-> Some(0), precip_in |-> None,
     humidity |-> humidity,
     feelslike_c |-> Some(1490), feelslike_f |-> None,
     vis_km |-> Some(10), vis_miles |-> None,
     uv |-> None, gust_kph |-> None, gust_mph |-> None,
     last_updated |-> Some("2024-01-01 12:00")]

(***************************************************************************)
(* memory_cache.py: MemoryCache                                            *)
(***************************************************************************)
\* the dict with key removed (del self.cache[key])
DictDel(d, key) == [k \in DOMAIN d \ {key} |-> d[k]]

DictPut_keeps_existing(d, key, entry) ==
    [k \in DOMAIN d \cup {key} |-> IF k = key /\ k \notin DOMAIN d THEN entry ELSE d[k]]

\* the dict with d[key] = entry
DictPut(d, key, entry) == [k \in DOMAIN d \cup {key} |-> IF k = key THEN entry ELSE d[k]]

\* self.cache.get(key)
DictGet(d, key) == IF key \in DOMAIN d THEN Some(d[key]) ELSE None

IsExpired_never(entry, t) == FALSE

IsExpired_reversed(entry, t) == entry.expires_at > t

\* the test of line 18
IsExpired(entry, t) == entry.expires_at < t

MemoryCache_get_no_evict(d, key, t) ==
    LET entry == DictGet(d, key)
    IN  IF entry = None
        THEN [ret |-> None, cache |-> d, entry |-> entry, evicted |-> FALSE]
        ELSE IF IsExpired(entry[1], t)
        THEN [ret |-> None, cache |-> d, entry |-> entry, evicted |-> FALSE]
        ELSE [ret |-> Some(entry[1].value), cache |-> d, entry |-> entry, evicted |-> FALSE]

\* get(key) at time t: the value returned, the dict afterwards, the local
\* variable entry and whether line 19 ran
MemoryCache_get(d, key, t) ==
    LET entry == DictGet(d, key)
    IN  IF entry = None
        THEN [ret |-> None, cache |-> d, entry |-> entry, evicted |-> FALSE]
        ELSE IF IsExpired(entry[1], t)
        THEN [ret |-> None, cache |-> DictDel(d, key), entry |-> entry, evicted |-> TRUE]
        ELSE [ret |-> Some(entry[1].value), cache |-> d, entry |-> entry, evicted |-> FALSE]

MemoryCache_set_no_ttl(d, key, value, ttl, t) ==
    DictPut(d, key, [value |-> value, expires_at |-> t])

\* set(key, value, ttl) at time t: the dict afterwards
MemoryCache_set(d, key, value, ttl, t) ==
    DictPut(d, key, [value |-> value, expires_at |-> t + ttl])

(***************************************************************************)
(* weather_service.py: WeatherService._apply_units                         *)
(***************************************************************************)
c_to_k(c) == c + 27315

f_to_k(f) == ((f - 3200) * 5) \div 9 + 27315

base_k_fahrenheit_first(wd, units) ==
    IF units \in {"K", "ALL"} /\ (wd.temp_c # None \/ wd.temp_f # None)
    THEN IF wd.temp_f # None THEN Some(f_to_k(wd.temp_f[1]))
         ELSE Some(c_to_k(wd.temp_c[1]))
    ELSE None

base_k(wd, units) ==
    IF units \in {"K", "ALL"} /\ (wd.temp_c # None \/ wd.temp_f # None)
    THEN IF wd.temp_c # None THEN Some(c_to_k(wd.temp_c[1]))
         ELSE Some(f_to_k(wd.temp_f[1]))
    ELSE None

common_fields(wd) ==
    [country |-> wd.country, state |-> wd.state, city |-> wd.city,
     time_zone |-> wd.time_zone, clouds |-> wd.clouds,
     wind_speed_kph |-> wd.wind_speed_kph, wind_degree |-> wd.wind_degree,
     wind_dir |-> wd.wind_dir, pressure_mb |-> wd.pressure_mb,
     pressure_in |-> wd.pressure_in, precip_mm |-> wd.precip_mm,
     precip_in |-> wd.precip_in, humidity |-> wd.humidity,
     feelslike_c |-> wd.feelslike_c, feelslike_f |-> wd.feelslike_f,
     vis_km |-> wd.vis_km, vis_miles |-> wd.vis_miles, uv |-> wd.uv,
     gust_kph |-> wd.gust_kph, gust_mph |-> wd.gust_mph,
     last_updated |-> wd.last_updated]

WithTemps_without_humidity(temp_c, temp_f, temp_k, common) ==
    [temp_c |-> temp_c, temp_f |-> temp_f, temp_k |-> temp_k, humidity |-> None] @@ common

\* WeatherData(temp_c=..., temp_f=..., temp_k=..., **common_fields)
WithTemps(temp_c, temp_f, temp_k, common) ==
    [temp_c |-> temp_c, temp_f |-> temp_f, temp_k |-> temp_k] @@ common

_apply_units_no_both(wd, units) ==
    IF units = "C" THEN WithTemps(wd.temp_c, None, None, common_fields(wd))
    ELSE IF units = "F" THEN WithTemps(None, wd.temp_f, None, common_fields(wd))
    ELSE IF units = "K" THEN WithTemps(None, None, base_k(wd, units), common_fields(wd))
    ELSE IF units = "ALL"
    THEN WithTemps(wd.temp_c, wd.temp_f, base_k(wd, units), common_fields(wd))
    ELSE wd

_apply_units_unknown_as_celsius(wd, units) ==
    IF units = "F" THEN WithTemps(None, wd.temp_f, None, common_fields(wd))
    ELSE IF units = "K" THEN WithTemps(None, None, base_k(wd, units), common_fields(wd))
    ELSE IF units = "BOTH" THEN WithTemps(wd.temp_c, wd.temp_f, None, common_fields(wd))
    ELSE IF units = "ALL"
    THEN WithTemps(wd.temp_c, wd.temp_f, base_k(wd, units), common_fields(wd))
    ELSE WithTemps(wd.temp_c, None, None, common_fields(wd))

_apply_units(wd, units) ==
    IF units = "C" THEN WithTemps(wd.temp_c, None, None, common_fields(wd))
    ELSE IF units = "F" THEN WithTemps(None, wd.temp_f, None, common_fields(wd))
    ELSE IF units = "K" THEN WithTemps(None, None, base_k(wd, units), common_fields(wd))
    ELSE IF units = "BOTH" THEN WithTemps(wd.temp_c, wd.temp_f, None, common_fields(wd))
    ELSE IF units = "ALL"
    THEN WithTemps(wd.temp_c, wd.temp_f, base_k(wd, units), common_fields(wd))
    ELSE wd

(***************************************************************************)
(* weather_client.py: WeatherClient.get_current_weather                    *)
(*                                                                         *)
(* A JSON value is [t |-> "null"], [t |-> "num", v |-> n] or               *)
(* [t |-> "str", v |-> s]; a JSON object is a function from its keys.      *)
(***************************************************************************)
JNull == [t |-> "null"]

JNum(n) == [t |-> "num", v |-> n]

JStr(s) == [t |-> "str", v |-> s]

\* block.get(key): None for a missing key
PyGet(block, key) == IF key \in DOMAIN block THEN block[key] ELSE JNull

\* block.get(key, default)
PyGetDefault(block, key, default) == IF key \in DOMAIN block THEN block[key] ELSE default

\* get_numeric(key): value if value is not None and value != "" else None
get_numeric(current_block, key) ==
    LET value == PyGet(current_block, key)
    IN  IF value.t = "null" THEN JNull
        ELSE IF value.t = "str" /\ value.v = "" THEN JNull
        ELSE value

\* x or None
OrNone(value) ==
    IF value.t = "null" THEN JNull
    ELSE IF value.t = "str" /\ value.v = "" THEN JNull
    ELSE IF value.t = "num" /\ value.v = 0 THEN JNull
    ELSE value

\* pydantic accepts the value for an Optional[float] / Optional[int] field
ValidOptNum(value) == value.t \in {"null", "num"}

\* pydantic accepts the value for a required float / int field
ValidNum(value) == value.t = "num"

\* pydantic accepts the value for an Optional[str] field
ValidOptStr(value) == value.t \in {"null", "str"}

\* pydantic accepts the value for a required str field
ValidStr(value) == value.t = "str"

\* the field of the model built from an accepted JSON value
ToOpt(value) == IF value.t = "null" THEN None ELSE Some(value.v)

\* WeatherData(...) of lines 181-206 from the two blocks of the payload
ParseWeatherData(location_block, current_block) ==
    IF ~({"country", "name"} \subseteq DOMAIN location_block)
    THEN Raise([type |-> "KeyError", message |-> "country/name"])
    ELSE
    LET f == [country |-> location_block["country"],
              state |-> OrNone(PyGet(location_block, "region")),
              city |-> location_block["name"],
              time_zone |-> OrNone(PyGet(location_block, "tz_id")),
              temp_c |-> PyGet(current_block, "temp_c"),
              temp_f |-> PyGet(current_block, "temp_f"),
              clouds |-> PyGetDefault(current_block, "cloud", JNum(0)),
              wind_speed_kph |-> PyGetDefault(current_block, "wind_kph", JNum(0)),
              wind_degree |-> get_numeric(current_block, "wind_degree"),
              wind_dir |-> PyGet(current_block, "wind_dir"),
              pressure_mb |-> get_numeric(current_block, "pressure_mb"),
              pressure_in |-> get_numeric(current_block, "pressure_in"),
              precip_mm |-> get_numeric(current_block, "precip_mm"),
              precip_in |-> get_numeric(current_block, "precip_in"),
              humidity |-> get_numeric(current_block, "humidity"),
              feelslike_c |-> get_numeric(current_block, "feelslike_c"),
              feelslike_f |-> get_numeric(current_block, "feelslike_f"),
              vis_km |-> get_numeric(current_block, "vis_km"),
              vis_miles |-> get_numeric(current_block, "vis_miles"),
              uv |-> get_numeric(current_block, "uv"),
              gust_kph |-> get_numeric(current_block, "gust_kph"),
              gust_mph |-> get_numeric(current_block, "gust_mph"),
              last_updated |-> PyGet(current_block, "last_updated")]
        OptNums == {"temp_c", "temp_f", "wind_degree", "pressure_mb", "pressure_in",
                    "precip_mm", "precip_in", "humidity", "feelslike_c", "feelslike_f",
                    "vis_km", "vis_miles", "uv", "gust_kph", "gust_mph"}
        OptStrs == {"state", "time_zone", "wind_dir", "last_updated"}
    IN  IF /\ ValidStr(f.country) /\ ValidStr(f.city)
           /\ ValidNum(f.clouds) /\ ValidNum(f.wind_speed_kph)
           /\ \A k \in OptNums : ValidOptNum(f[k])
           /\ \A k \in OptStrs : ValidOptStr(f[k])
        THEN Return([k \in DOMAIN f \cup {"temp_k"} |->
                        IF k = "temp_k" THEN None
                        ELSE IF k \in {"country", "city", "clouds", "wind_speed_kph"}
                        THEN f[k].v
                        ELSE ToOpt(f[k])])
        ELSE Raise([type |-> "ValidationError", message |-> "WeatherData"])

\* get_current_weather(query) when requests.get ends as resp says: it raised
\* (kind "exception") or returned a response with a status, a text and a body
WeatherClient_get_current_weather(query, resp) ==
    IF resp.kind = "exception"
    THEN Raise([type |-> "WeatherClientError",
                message |-> "Network error: " \o resp.exc])
    ELSE IF resp.status_code # 200
    THEN Raise([type |-> "WeatherClientError",
                message |-> "WeatherAPI request failed: " \o ToString(resp.status_code)
                            \o " " \o resp.text])
    ELSE IF ~({"location", "current"} \subseteq DOMAIN resp.json)
    THEN Raise([type |-> "KeyError", message |-> "location/current"])
    ELSE ParseWeatherData(resp.json["location"], resp.json["current"])

\* the HTTP requests get_current_weather(query) issues (lines 153-161)
WeatherClient_get_current_weather_requests(query) ==
    <<[method |-> "GET", url |-> "/current.json", q |-> query]>>

(***************************************************************************)
(* weather_client.py: WeatherClient.get_current_weather_bulk               *)
(*                                                                         *)
(* A list is a sequence; list index idx is position idx + 1.               *)
(***************************************************************************)
\* the body of the bulk request: one {"q", "custom_id"} per location (lines 49-60)
bulk_locations(locations) ==
    [i \in 1..Len(locations) |->
        [q |-> to_query(locations[i]).ret, custom_id |-> ToString(i - 1)]]

\* id_to_index of lines 47-52: str(idx) -> idx
id_to_index(locations) ==
    [custom_id \in {ToString(i - 1) : i \in 1..Len(locations)} |->
        CHOOSE idx \in 0..(Len(locations) - 1) : ToString(idx) = custom_id]

\* the HTTP requests get_current_weather_bulk(locations) issues
WeatherClient_get_current_weather_bulk_requests(locations) ==
    IF locations = <<>> THEN <<>>
    ELSE IF \E i \in 1..Len(locations) : ~to_query(locations[i]).ok THEN <<>>
    ELSE <<[method |-> "POST", url |-> "/current.json", q |-> "bulk",
            locations |-> bulk_locations(locations)]>>

\* custom_id is None or custom_id not in id_to_index (line 94)
InvalidCustomId(custom_id, ids) ==
    IF custom_id.t = "str" THEN custom_id.v \notin DOMAIN ids ELSE TRUE

RECURSIVE reindex_by_position(_, _, _, _)
reindex_by_position(bulk_items, ids, results, pos) ==
    IF bulk_items = <<>> THEN Return(results)
    ELSE
    LET item == Head(bulk_items)
        query_block == IF "query" \in DOMAIN item THEN item["query"] ELSE <<>>
        location_block == IF "location" \in DOMAIN query_block
                          THEN query_block["location"] ELSE <<>>
        current_block == IF "current" \in DOMAIN query_block
                         THEN query_block["current"] ELSE <<>>
        wd == ParseWeatherData(location_block, current_block)
    IN  IF pos > Len(results)
        THEN reindex_by_position(Tail(bulk_items), ids, results, pos)
        ELSE IF ~wd.ok THEN wd
        ELSE reindex_by_position(Tail(bulk_items), ids,
                                 [results EXCEPT ![pos] = Some(wd.ret)], pos + 1)

\* the loop of lines 88-130 over the items left, from the results so far and
\* the position pos of the item in the response: the final results, or the
\* exception the constructor of line 104 raised
RECURSIVE reindex(_, _, _, _)
reindex(bulk_items, ids, results, pos) ==
    IF bulk_items = <<>> THEN Return(results)
    ELSE
    LET item == Head(bulk_items)
        query_block == IF "query" \in DOMAIN item THEN item["query"] ELSE <<>>
        custom_id == PyGet(query_block, "custom_id")
        location_block == IF "location" \in DOMAIN query_block
                          THEN query_block["location"] ELSE <<>>
        current_block == IF "current" \in DOMAIN query_block
                         THEN query_block["current"] ELSE <<>>
        wd == ParseWeatherData(location_block, current_block)
    IN  IF InvalidCustomId(custom_id, ids)
        THEN reindex(Tail(bulk_items), ids, results, pos + 1)
        ELSE IF ~wd.ok THEN wd
        ELSE reindex(Tail(bulk_items), ids,
                     [results EXCEPT ![ids[custom_id.v] + 1] = Some(wd.ret)], pos + 1)

WeatherClient_get_current_weather_bulk_posts_empty(locations, resp) ==
    IF resp.kind = "exception"
    THEN Raise([type |-> "WeatherClientError",
                message |-> "Network error: " \o resp.exc])
    ELSE IF resp.status_code # 200
    THEN Raise([type |-> "WeatherClientError",
                message |-> "Failed bulk weather request: " \o ToString(resp.status_code)
                            \o " " \o resp.text])
    ELSE reindex(IF "bulk" \in DOMAIN resp.json THEN resp.json["bulk"] ELSE <<>>,
                 id_to_index(locations),
                 [i \in 1..Len(locations) |-> None], 1)

\* get_current_weather_bulk(locations) when requests.post ends as resp says
WeatherClient_get_current_weather_bulk(locations, resp) ==
    IF locations = <<>> THEN Return(<<>>)
    ELSE IF \E i \in 1..Len(locations) : ~to_query(locations[i]).ok
    THEN Raise(InvalidLocation)
    ELSE IF resp.kind = "exception"
    THEN Raise([type |-> "WeatherClientError",
                message |-> "Network error: " \o resp.exc])
    ELSE IF resp.status_code # 200
    THEN Raise([type |-> "WeatherClientError",
                message |-> "Failed bulk weather request: " \o ToString(resp.status_code)
                            \o " " \o resp.text])
    ELSE reindex(IF "bulk" \in DOMAIN resp.json THEN resp.json["bulk"] ELSE <<>>,
                 id_to_index(locations),
                 [i \in 1..Len(locations) |-> None], 1)

(***************************************************************************)
(* weather_service.py: WeatherService.get_current_weather                  *)
(***************************************************************************)
effective_units_as_given(units, default) == IF TruthyStr(units) THEN units[1] ELSE default

\* units or self.default_units, uppercased (line 25)
effective_units(units, default) == Upper(IF TruthyStr(units) THEN units[1] ELSE default)

cache_key_no_units(query, units) == query

\* line 27
cache_key(query, units) == query \o "|units=" \o units

get_current_weather_caches_without_cache(d, t, location, units, resp, delay) ==
    LET u == effective_units(units, default_units)
        query == to_query(location)
    IN  IF ~query.ok
        THEN [result |-> query, cache |-> d, now |-> t, trace |-> <<>>, data |-> None]
        ELSE
        LET key == cache_key(query.ret, u)
            g == MemoryCache_get(d, key, t)
            looked == IF g.evicted THEN <<"cache.get", "cache.del">>
                      ELSE <<"cache.get">>
            d1 == g.cache
            data == WeatherClient_get_current_weather(query.ret, resp)
            t1 == t + delay
        IN  IF g.ret # None
            THEN [result |-> Return(g.ret[1]), cache |-> d1, now |-> t, trace |-> looked,
                  data |-> None]
            ELSE IF ~data.ok
            THEN [result |-> data, cache |-> d1, now |-> t1,
                  trace |-> looked \o <<"client.get_current_weather">>,
                  data |-> Some(data)]
            ELSE
            LET processed_data == _apply_units(data.ret, u)
            IN  [result |-> Return(processed_data),
                 cache |-> MemoryCache_set(d1, key, processed_data, cache_ttl, t1),
                 now |-> t1,
                 trace |-> looked \o <<"client.get_current_weather", "cache.set">>,
                 data |-> Some(data)]

\* get_current_weather(location, units) started at time t on the dict d, when
\* requests.get ends as resp says after delay seconds: the outcome, the dict
\* and the clock afterwards, the calls made to the cache and the client, and
\* the local variable data (the outcome of the client call, if one was made)
get_current_weather(d, t, location, units, resp, delay) ==
    LET u == effective_units(units, default_units)
        query == to_query(location)
    IN  IF ~query.ok
        THEN [result |-> query, cache |-> d, now |-> t, trace |-> <<>>, data |-> None]
        ELSE
        LET key == cache_key(query.ret, u)
            g == MemoryCache_get(d, key, t)
            looked == IF ~has_cache THEN <<>>
                      ELSE IF g.evicted THEN <<"cache.get", "cache.del">>
                      ELSE <<"cache.get">>
            d1 == IF has_cache THEN g.cache ELSE d
            data == WeatherClient_get_current_weather(query.ret, resp)
            t1 == t + delay
        IN  IF has_cache /\ g.ret # None
            THEN [result |-> Return(g.ret[1]), cache |-> d1, now |-> t, trace |-> looked,
                  data |-> None]
            ELSE IF ~data.ok
            THEN [result |-> data, cache |-> d1, now |-> t1,
                  trace |-> looked \o <<"client.get_current_weather">>,
                  data |-> Some(data)]
            ELSE
            LET processed_data == _apply_units(data.ret, u)
            IN  IF has_cache
                THEN [result |-> Return(processed_data),
                      cache |-> MemoryCache_set(d1, key, processed_data, cache_ttl, t1),
                      now |-> t1,
                      trace |-> looked \o <<"client.get_current_weather", "cache.set">>,
                      data |-> Some(data)]
                ELSE [result |-> Return(processed_data), cache |-> d1, now |-> t1,
                      trace |-> looked \o <<"client.get_current_weather">>,
                      data |-> Some(data)]

(***************************************************************************)
(* weather_service.py: WeatherService.get_current_weather_bulk             *)
(***************************************************************************)
RECURSIVE processed_reversed(_, _)
processed_reversed(raw_results, units) ==
    IF raw_results = <<>> THEN <<>>
    ELSE IF Head(raw_results) # None
    THEN processed_reversed(Tail(raw_results), units)
            \o <<_apply_units(Head(raw_results)[1], units)>>
    ELSE processed_reversed(Tail(raw_results), units)

\* the loop of lines 63-66: the list processed
RECURSIVE processed(_, _)
processed(raw_results, units) ==
    IF raw_results = <<>> THEN <<>>
    ELSE IF Head(raw_results) # None
    THEN <<_apply_units(Head(raw_results)[1], units)>> \o processed(Tail(raw_results), units)
    ELSE processed(Tail(raw_results), units)

get_current_weather_bulk_caching(d, t, locations, units, resp, delay) ==
    LET effective == effective_units(units, default_units)
        raw_results == WeatherClient_get_current_weather_bulk(locations, resp)
        key == cache_key(to_query(locations[1]).ret, effective)
    IN  IF locations = <<>>
        THEN [result |-> Return(<<>>), cache |-> d, now |-> t, trace |-> <<>>,
              raw_results |-> None]
        ELSE IF ~raw_results.ok
        THEN [result |-> raw_results, cache |-> d, now |-> t + delay,
              trace |-> <<"client.get_current_weather_bulk">>,
              raw_results |-> Some(raw_results)]
        ELSE [result |-> Return(processed(raw_results.ret, effective)),
              cache |-> IF has_cache /\ raw_results.ret[1] # None
                        THEN MemoryCache_set(d, key,
                                             _apply_units(raw_results.ret[1][1], effective),
                                             cache_ttl, t + delay)
                        ELSE d,
              now |-> t + delay,
              trace |-> <<"client.get_current_weather_bulk">>,
              raw_results |-> Some(raw_results)]

\* get_current_weather_bulk(locations, units) started at time t on the dict d,
\* when requests.post ends as resp says after delay seconds: the outcome, the
\* dict and the clock afterwards, the calls made to the cache and the client,
\* and the local variable raw_results (the outcome of the client call)
get_current_weather_bulk(d, t, locations, units, resp, delay) ==
    LET effective == effective_units(units, default_units)
        raw_results == WeatherClient_get_current_weather_bulk(locations, resp)
    IN  IF locations = <<>>
        THEN [result |-> Return(<<>>), cache |-> d, now |-> t, trace |-> <<>>,
              raw_results |-> None]
        ELSE IF ~raw_results.ok
        THEN [result |-> raw_results, cache |-> d, now |-> t + delay,
              trace |-> <<"client.get_current_weather_bulk">>,
              raw_results |-> Some(raw_results)]
        ELSE [result |-> Return(processed(raw_results.ret, effective)),
              cache |-> d, now |-> t + delay,
              trace |-> <<"client.get_current_weather_bulk">>,
              raw_results |-> Some(raw_results)]

(***************************************************************************)
(* Inputs                                                                  *)
(***************************************************************************)
London == Location(Some("London"), None, None, None, None, None, None)

EmptyLocation == Location(None, None, None, None, None, None, None)

\* the locations callers pass to the service
Locations == {London, EmptyLocation}

\* the units callers pass to the service
UnitArgs == {None, Some("C"), Some("k")}

\* the default_units the service is constructed with
DefaultUnitArgs == {"c"}

LocationBlock ==
    [country |-> JStr("United Kingdom"), region |-> JStr("City of London, Greater London"),
     name |-> JStr("London"), tz_id |-> JStr("Europe/London")]

\* bodies of a 200 response
Payloads ==
    { [location |-> LocationBlock,
       current |-> [temp_c |-> JNum(1550), temp_f |-> JNum(5990), cloud |-> JNum(75),
                    wind_kph |-> JNum(125), humidity |-> JNum(80)]],
      [location |-> LocationBlock,
       current |-> [temp_f |-> JNum(3200), cloud |-> JNum(10), wind_kph |-> JNum(40)]] }

\* the ways requests.get can end
Responses ==
    {[kind |-> "exception", exc |-> "ConnectionError"],
     [kind |-> "response", status_code |-> 404, text |-> "Not Found"]}
    \cup {[kind |-> "response", status_code |-> 200, text |-> "", json |-> p] : p \in Payloads}

\* every number of calls to the client in a trace
ClientCalls(trace) ==
    Cardinality({i \in DOMAIN trace : trace[i] = "client.get_current_weather"})

(***************************************************************************)
(* The service with its cache and its clock                                *)
(***************************************************************************)
Init ==
    /\ now = 0
    /\ threads = <<>>
    /\ cache = <<>>
    /\ has_cache \in BOOLEAN
    /\ cache_ttl \in 1..MaxTtl
    /\ default_units \in {Upper(u) : u \in DefaultUnitArgs}
    /\ last = [op |-> "init"]

\* time passes between two calls
Tick ==
    /\ now < MaxTime
    /\ now' = now + 1
    /\ last' = [op |-> "tick"]
    /\ UNCHANGED <<cache, has_cache, cache_ttl, default_units, threads>>

\* a caller calls get_current_weather with units drawn from Units
GetOneWith(Units) ==
    \E location \in Locations, units \in Units, resp \in Responses, delay \in 0..MaxDelay :
        LET r == get_current_weather(cache, now, location, units, resp, delay)
        IN  /\ r.now <= MaxTime
            /\ now' = r.now
            /\ cache' = r.cache
            /\ last' = [op |-> "get_current_weather", location |-> location,
                        units |-> units, t |-> now, result |-> r.result,
                        trace |-> r.trace, data |-> r.data]
            /\ UNCHANGED <<has_cache, cache_ttl, default_units, threads>>

GetOne == GetOneWith(UnitArgs)

Next == Tick \/ GetOne

Spec == Init /\ [][Next]_vars

(***************************************************************************)
(* The service called with unit strings _apply_units does not recognize    *)
(***************************************************************************)
LenientUnitArgs == {Some("x"), Some("X")}

GetOneLenient == GetOneWith(LenientUnitArgs)

NextLenient == Tick \/ GetOneLenient

SpecLenient == Init /\ [][NextLenient]_vars

(***************************************************************************)
(* MemoryCache used on its own                                             *)
(***************************************************************************)
CacheKeys == {"a", "b"}

CacheValues == {"v1", "v2"}

InitCache ==
    /\ now = 0
    /\ threads = <<>>
    /\ cache = <<>>
    /\ has_cache = TRUE
    /\ cache_ttl \in 1..MaxTtl
    /\ default_units = "C"
    /\ last = [op |-> "init"]

CacheGet ==
    \E key \in CacheKeys :
        LET g == MemoryCache_get(cache, key, now)
        IN  /\ cache' = g.cache
            /\ last' = [op |-> "get", key |-> key, t |-> now, entry |-> g.entry,
                        ret |-> g.ret, evicted |-> g.evicted]
            /\ UNCHANGED <<now, has_cache, cache_ttl, default_units, threads>>

CacheSet ==
    \E key \in CacheKeys, value \in CacheValues, ttl \in 0..MaxTtl :
        /\ cache' = MemoryCache_set(cache, key, value, ttl, now)
        /\ last' = [op |-> "set", key |-> key, value |-> value, ttl |-> ttl, t |-> now,
                    before |-> DictGet(cache, key)]
        /\ UNCHANGED <<now, has_cache, cache_ttl, default_units, threads>>

NextCache == Tick \/ CacheGet \/ CacheSet

SpecCache == InitCache /\ [][NextCache]_vars

(***************************************************************************)
(* Pure functions: no service, no cache, only the call and its result      *)
(***************************************************************************)
InitPure ==
    /\ now = 0
    /\ threads = <<>>
    /\ cache = <<>>
    /\ has_cache = FALSE
    /\ cache_ttl = MaxTtl
    /\ default_units = "C"
    /\ last = [op |-> "init"]

(***************************************************************************)
(* Location.to_query on every combination of fields                        *)
(***************************************************************************)
AllLocations ==
    {Location(city, country, state, zip_code, ip_address, latitude, longitude) :
        city \in {None, Some(""), Some("London")},
        country \in {None, Some(""), Some("UK")},
        state \in {None, Some(""), Some("England")},
        zip_code \in {None, Some(""), Some("10001")},
        ip_address \in {None, Some(""), Some("8.8.8.8")},
        latitude \in {None, Some(0), Some(515)},
        longitude \in {None, Some(0), Some(-1)}}

ToQuery ==
    \E self \in AllLocations :
        /\ last' = [op |-> "to_query", self |-> self, result |-> to_query(self)]
        /\ UNCHANGED <<now, cache, has_cache, cache_ttl, default_units, threads>>

NextQuery == ToQuery

SpecQuery == InitPure /\ [][NextQuery]_vars

(***************************************************************************)
(* WeatherService._apply_units on every observation and mode               *)
(***************************************************************************)
Observations ==
    {WeatherData("United Kingdom", state, "London", temp_c, temp_f, temp_k, 75, humidity) :
        state \in {None, Some("England")},
        temp_c \in {None, Some(0), Some(1550)},
        temp_f \in {None, Some(-400), Some(5990)},
        temp_k \in {None, Some(28865)},
        humidity \in {None, Some(80)}}

UnitModes == {"C", "F", "K", "BOTH", "ALL", "X", "c", ""}

ApplyUnits ==
    \E wd \in Observations, units \in UnitModes :
        /\ last' = [op |-> "_apply_units", wd |-> wd, units |-> units,
                    ret |-> _apply_units(wd, units)]
        /\ UNCHANGED <<now, cache, has_cache, cache_ttl, default_units, threads>>

NextUnits == ApplyUnits

SpecUnits == InitPure /\ [][NextUnits]_vars

(***************************************************************************)
(* The client's two operations and the service's bulk operation, each on   *)
(* every input and every way the HTTP call can end                         *)
(***************************************************************************)
MaxBulk == 3

MaxItems == 2

\* the location at index idx of a bulk input
BulkCity(idx) ==
    Location(Some("City" \o ToString(idx)), Some("UK"), None, None, None, None, None)

\* the lists of locations passed to the bulk operations
LocationLists ==
    {[i \in 1..n |-> BulkCity(i - 1)] : n \in 0..MaxBulk}
        \cup {<<BulkCity(0), EmptyLocation>>}

\* one element of the "bulk" array of the provider's answer
BulkItem(custom_id, name, temp_c) ==
    [query |-> [custom_id |-> custom_id,
                location |-> [country |-> JStr("UK"), name |-> JStr(name)],
                current |-> [temp_c |-> temp_c, cloud |-> JNum(75), wind_kph |-> JNum(125)]]]

BulkItems ==
    {BulkItem(JStr(ToString(idx)), "City" \o ToString(idx), JNum(1000 + 100 * idx)) :
        idx \in 0..(MaxBulk - 1)}
    \cup {BulkItem(JStr("0"), "City0", JNull),
          BulkItem(JStr("9"), "City9", JNum(900)),
          BulkItem(JNull, "City0", JNum(700)),
          [query |-> [location |-> [country |-> JStr("UK"), name |-> JStr("City1")],
                      current |-> [temp_c |-> JNum(1100)]]],
          [query |-> [custom_id |-> JStr("1"), location |-> [name |-> JStr("City1")],
                      current |-> [temp_c |-> JNum(1100)]]]}

RECURSIVE SeqsUpTo(_, _)
SeqsUpTo(S, n) ==
    IF n = 0 THEN {<<>>}
    ELSE LET shorter == SeqsUpTo(S, n - 1)
         IN  shorter \cup {Append(q, x) : q \in shorter, x \in S}

\* the ways requests.get and requests.post can fail
FailedResponses ==
    {[kind |-> "exception", exc |-> "ConnectionError"],
     [kind |-> "exception", exc |-> "Timeout"],
     [kind |-> "response", status_code |-> 404, text |-> "Not Found"],
     [kind |-> "response", status_code |-> 500, text |-> "Internal Server Error"]}

\* the ways requests.post can end
BulkResponses ==
    FailedResponses
    \cup {[kind |-> "response", status_code |-> 200, text |-> "", json |-> [bulk |-> items]] :
            items \in SeqsUpTo(BulkItems, MaxItems)}
    \cup {[kind |-> "response", status_code |-> 200, text |-> "", json |-> [error |-> JNull]]}

\* the ways requests.get can end
SingleResponses ==
    FailedResponses \cup Responses
    \cup {[kind |-> "response", status_code |-> 200, text |-> "",
           json |-> [location |-> LocationBlock]]}

BulkUnitArgs == {None, Some("k")}

InitBulk ==
    /\ now = 0
    /\ threads = <<>>
    /\ cache = <<>>
    /\ has_cache = FALSE
    /\ cache_ttl = MaxTtl
    /\ default_units = "C"
    /\ last \in {[op |-> "call_fetch_one", query |-> to_query(l).ret, resp |-> resp] :
                    l \in {London, BulkCity(0)}, resp \in SingleResponses}
               \cup {[op |-> "call_fetch_bulk", locations |-> ls, resp |-> resp] :
                    ls \in LocationLists, resp \in BulkResponses}
               \cup {[op |-> "call_get_bulk", locations |-> ls, units |-> units, resp |-> resp] :
                    ls \in LocationLists, units \in BulkUnitArgs, resp \in BulkResponses}

FetchOne ==
    /\ last.op = "call_fetch_one"
    /\ last' = [op |-> "fetch_one", query |-> last.query, resp |-> last.resp,
                requests |-> WeatherClient_get_current_weather_requests(last.query),
                result |-> WeatherClient_get_current_weather(last.query, last.resp)]
    /\ UNCHANGED <<now, cache, has_cache, cache_ttl, default_units, threads>>

FetchBulk ==
    /\ last.op = "call_fetch_bulk"
    /\ last' = [op |-> "fetch_bulk", locations |-> last.locations, resp |-> last.resp,
                requests |-> WeatherClient_get_current_weather_bulk_requests(last.locations),
                result |-> WeatherClient_get_current_weather_bulk(last.locations, last.resp)]
    /\ UNCHANGED <<now, cache, has_cache, cache_ttl, default_units, threads>>

GetBulkCall ==
    /\ last.op = "call_get_bulk"
    /\ LET r == get_current_weather_bulk(cache, now, last.locations, last.units, last.resp, 0)
       IN  /\ last' = [op |-> "get_current_weather_bulk", locations |-> last.locations,
                       units |-> last.units, resp |-> last.resp, result |-> r.result,
                       trace |-> r.trace, raw_results |-> r.raw_results]
           /\ cache' = r.cache
           /\ now' = r.now
    /\ UNCHANGED <<has_cache, cache_ttl, default_units, threads>>

NextBulk == FetchOne \/ FetchBulk \/ GetBulkCall

SpecBulk == InitBulk /\ [][NextBulk]_vars

(***************************************************************************)
(* The service called both ways: single calls, which use the cache, mixed  *)
(* with bulk calls                                                         *)
(***************************************************************************)
MixedUnitArgs == {None}

MixedLocationLists == {<<>>, <<London>>, <<London, EmptyLocation>>}

\* the ways requests.post can end
MixedBulkResponses ==
    {[kind |-> "exception", exc |-> "ConnectionError"]}
    \cup {[kind |-> "response", status_code |-> 200, text |-> "",
           json |-> [bulk |-> <<[query |-> [custom_id |-> JStr("0"),
                                            location |-> p.location,
                                            current |-> p.current]]>>]] :
            p \in Payloads}

GetOneMixed == GetOneWith(MixedUnitArgs)

\* a caller calls get_current_weather_bulk with units drawn from Units
GetBulkWith(Units) ==
    \E locations \in MixedLocationLists, units \in Units,
       resp \in MixedBulkResponses, delay \in 0..MaxDelay :
        LET r == get_current_weather_bulk(cache, now, locations, units, resp, delay)
        IN  /\ r.now <= MaxTime
            /\ now' = r.now
            /\ cache' = r.cache
            /\ last' = [op |-> "get_current_weather_bulk", locations |-> locations,
                        units |-> units, resp |-> resp, result |-> r.result,
                        trace |-> r.trace, raw_results |-> r.raw_results]
            /\ UNCHANGED <<has_cache, cache_ttl, default_units, threads>>

GetBulk == GetBulkWith(MixedUnitArgs)

NextMixed == Tick \/ GetOneMixed \/ GetBulk

SpecMixed == Init /\ [][NextMixed]_vars

(***************************************************************************)
(* The service configured and called with unit strings in either case      *)
(***************************************************************************)
CaseDefaultUnitArgs == {"k"}

CaseUnitArgs == {None, Some("c"), Some("C")}

\* WeatherService(client, cache=MemoryCache(), cache_ttl, default_units)
InitCase ==
    /\ now = 0
    /\ threads = <<>>
    /\ cache = <<>>
    /\ has_cache = TRUE
    /\ cache_ttl = MaxTtl
    /\ default_units \in {Upper(u) : u \in CaseDefaultUnitArgs}
    /\ last = [op |-> "init"]

GetOneCase == GetOneWith(CaseUnitArgs)

NextCase == Tick \/ GetOneCase

SpecCase == InitCase /\ [][NextCase]_vars

(***************************************************************************)
(* The service without a cache, called again and again                     *)
(***************************************************************************)
MaxEarlier == 2

\* WeatherService(client, cache=None)
InitNoCache ==
    /\ now = 0
    /\ threads = <<>>
    /\ cache = <<>>
    /\ has_cache = FALSE
    /\ cache_ttl \in 1..MaxTtl
    /\ default_units \in {Upper(u) : u \in DefaultUnitArgs}
    /\ last = [op |-> "init"]

\* a caller calls get_current_weather; earlier counts the calls made for the
\* same location and units directly before this one, up to MaxEarlier
GetOneAgain ==
    \E location \in Locations, units \in UnitArgs, resp \in Responses, delay \in 0..MaxDelay :
        LET r == get_current_weather(cache, now, location, units, resp, delay)
            same == /\ last.op = "get_current_weather"
                    /\ last.location = location
                    /\ last.units = units
        IN  /\ r.now <= MaxTime
            /\ now' = r.now
            /\ cache' = r.cache
            /\ last' = [op |-> "get_current_weather", location |-> location,
                        units |-> units, t |-> now, result |-> r.result,
                        trace |-> r.trace, data |-> r.data,
                        earlier |-> IF ~same THEN 0
                                    ELSE IF last.earlier < MaxEarlier THEN last.earlier + 1
                                    ELSE MaxEarlier]
            /\ UNCHANGED <<has_cache, cache_ttl, default_units, threads>>

NextNoCache == Tick \/ GetOneAgain

SpecNoCache == InitNoCache /\ [][NextNoCache]_vars

(***************************************************************************)
(* The two parsers of the client on payloads with missing, null and blank  *)
(* numeric fields                                                          *)
(***************************************************************************)
\* the ways a field of the current block can come: 0 the key is missing,
\* 1 null, 2 the empty string, 3 a number
FieldShapes == 0..3

\* the part of a current block that holds key in the shape given
ShapedField(key, shape, number) ==
    IF shape = 0 THEN <<>>
    ELSE [k \in {key} |-> IF shape = 1 THEN JNull
                          ELSE IF shape = 2 THEN JStr("")
                          ELSE JNum(number)]

\* a current block with its temperatures, humidity and pressure as shaped
ShapedCurrentBlock(temp_c, temp_f, humidity, pressure_mb) ==
    ShapedField("temp_c", temp_c, 1550) @@ ShapedField("temp_f", temp_f, 5990)
        @@ ShapedField("humidity", humidity, 80)
        @@ ShapedField("pressure_mb", pressure_mb, 1012)
        @@ [cloud |-> JNum(75), wind_kph |-> JNum(125)]

\* the parse of the current block by get_current_weather
ParsedByFetchOne(current_block) ==
    WeatherClient_get_current_weather(
        to_query(London).ret,
        [kind |-> "response", status_code |-> 200, text |-> "",
         json |-> [location |-> LocationBlock, current |-> current_block]])

\* the parse of the current block by get_current_weather_bulk
ParsedByFetchBulk(current_block) ==
    WeatherClient_get_current_weather_bulk(
        <<London>>,
        [kind |-> "response", status_code |-> 200, text |-> "",
         json |-> [bulk |-> <<[query |-> [custom_id |-> JStr("0"),
                                          location |-> LocationBlock,
                                          current |-> current_block]]>>]])

InitParse ==
    /\ now = 0
    /\ threads = <<>>
    /\ cache = <<>>
    /\ has_cache = FALSE
    /\ cache_ttl = MaxTtl
    /\ default_units = "C"
    /\ \E temp_c \in FieldShapes, temp_f \in FieldShapes, humidity \in FieldShapes,
          pressure_mb \in FieldShapes :
            last = [op |-> "payload",
                    shapes |-> [temp_c |-> temp_c, temp_f |-> temp_f,
                                humidity |-> humidity, pressure_mb |-> pressure_mb],
                    current_block |-> ShapedCurrentBlock(temp_c, temp_f, humidity,
                                                         pressure_mb)]

ParseOne ==
    /\ last.op = "payload"
    /\ last' = [op |-> "parse_one", shapes |-> last.shapes,
                current_block |-> last.current_block,
                result |-> ParsedByFetchOne(last.current_block)]
    /\ UNCHANGED <<now, cache, has_cache, cache_ttl, default_units, threads>>

ParseBulk ==
    /\ last.op = "payload"
    /\ last' = [op |-> "parse_bulk", shapes |-> last.shapes,
                current_block |-> last.current_block,
                result |-> ParsedByFetchBulk(last.current_block)]
    /\ UNCHANGED <<now, cache, has_cache, cache_ttl, default_units, threads>>

NextParse == ParseOne \/ ParseBulk

SpecParse == InitParse /\ [][NextParse]_vars

(***************************************************************************)
(* memory_cache.py: one MemoryCache called from several threads.  A thread *)
(* runs a call one statement at a time; the statements of the threads      *)
(* interleave, and each access to the dict is atomic.                      *)
(***************************************************************************)
MaxThreads == 2

Threads == 1..MaxThreads

ThreadKeys == {"a"}

Idle(result) == [pc |-> "idle", result |-> result]

InitThreads ==
    /\ now = 0
    /\ cache = <<>>
    /\ has_cache = TRUE
    /\ cache_ttl = MaxTtl
    /\ default_units = "C"
    /\ last = [op |-> "threads", stored |-> {}]
    /\ threads = [t \in Threads |-> Idle(None)]

\* the clock advances while calls are in progress
ClockAdvances ==
    /\ now < MaxTime
    /\ now' = now + 1
    /\ UNCHANGED <<cache, has_cache, cache_ttl, default_units, last, threads>>

\* thread t calls get(key)
CallGet(t) ==
    /\ threads[t].pc = "idle"
    /\ \E key \in ThreadKeys :
            threads' = [threads EXCEPT ![t] = [pc |-> "get_14", op |-> "get", key |-> key]]
    /\ UNCHANGED <<now, cache, has_cache, cache_ttl, default_units, last>>

\* lines 14-16: entry = self.cache.get(key); if not entry: return None
Get14(t) ==
    /\ threads[t].pc = "get_14"
    /\ LET entry == DictGet(cache, threads[t].key)
       IN  threads' = [threads EXCEPT ![t] =
                IF entry = None
                THEN [pc |-> "idle", op |-> "get", key |-> threads[t].key,
                      result |-> Some(Return(None))]
                ELSE [pc |-> "get_18", op |-> "get", key |-> threads[t].key,
                      entry |-> entry[1]]]
    /\ UNCHANGED <<now, cache, has_cache, cache_ttl, default_units, last>>

\* lines 18 and 22: if entry["expires_at"] < time.time(), else return entry["value"]
Get18(t) ==
    /\ threads[t].pc = "get_18"
    /\ threads' = [threads EXCEPT ![t] =
            IF IsExpired(threads[t].entry, now)
            THEN [pc |-> "get_19", op |-> "get", key |-> threads[t].key,
                  entry |-> threads[t].entry]
            ELSE [pc |-> "idle", op |-> "get", key |-> threads[t].key,
                  result |-> Some(Return(Some(threads[t].entry.value)))]]
    /\ UNCHANGED <<now, cache, has_cache, cache_ttl, default_units, last>>

\* lines 19-20: del self.cache[key]; return None.  del raises KeyError when
\* the key is not in the dict
Get19(t) ==
    /\ threads[t].pc = "get_19"
    /\ IF threads[t].key \in DOMAIN cache
       THEN /\ cache' = DictDel(cache, threads[t].key)
            /\ threads' = [threads EXCEPT ![t] =
                    [pc |-> "idle", op |-> "get", key |-> threads[t].key,
                     result |-> Some(Return(None))]]
       ELSE /\ cache' = cache
            /\ threads' = [threads EXCEPT ![t] =
                    [pc |-> "idle", op |-> "get", key |-> threads[t].key,
                     result |-> Some(Raise([type |-> "KeyError",
                                            message |-> threads[t].key]))]]
    /\ UNCHANGED <<now, has_cache, cache_ttl, default_units, last>>

\* thread t calls set(key, value, ttl)
CallSet(t) ==
    /\ threads[t].pc = "idle"
    /\ \E key \in ThreadKeys, value \in CacheValues, ttl \in 0..MaxTtl :
            threads' = [threads EXCEPT ![t] =
                [pc |-> "set_26", op |-> "set", key |-> key, value |-> value, ttl |-> ttl]]
    /\ UNCHANGED <<now, cache, has_cache, cache_ttl, default_units, last>>

\* line 26: expires_at = time.time() + ttl
Set26(t) ==
    /\ threads[t].pc = "set_26"
    /\ threads' = [threads EXCEPT ![t] =
            [pc |-> "set_27", op |-> "set", key |-> threads[t].key,
             value |-> threads[t].value, expires_at |-> now + threads[t].ttl]]
    /\ UNCHANGED <<now, cache, has_cache, cache_ttl, default_units, last>>

\* lines 27-30: self.cache[key] = {"value": value, "expires_at": expires_at}
Set27(t) ==
    /\ threads[t].pc = "set_27"
    /\ cache' = DictPut(cache, threads[t].key,
                        [value |-> threads[t].value, expires_at |-> threads[t].expires_at])
    /\ threads' = [threads EXCEPT ![t] =
            [pc |-> "idle", op |-> "set", key |-> threads[t].key,
             result |-> Some(Return(None))]]
    /\ last' = [op |-> "threads",
                stored |-> last.stored \cup {<<threads[t].key, threads[t].value>>}]
    /\ UNCHANGED <<now, has_cache, cache_ttl, default_units>>

NextThreads ==
    \/ ClockAdvances
    \/ \E t \in Threads : CallGet(t)
    \/ \E t \in Threads : Get14(t)
    \/ \E t \in Threads : Get18(t)
    \/ \E t \in Threads : Get19(t)
    \/ \E t \in Threads : CallSet(t)
    \/ \E t \in Threads : Set26(t)
    \/ \E t \in Threads : Set27(t)

SpecThreads == InitThreads /\ [][NextThreads]_vars

(***************************************************************************)
(* pipeline.py: run_pipeline, from the locations read to the rows handed   *)
(* to the CSV writer                                                       *)
(***************************************************************************)
\* list(zip(locations, weather_list)) (line 65)
zip(locations, weather_list) ==
    [k \in 1..(IF Len(locations) < Len(weather_list)
               THEN Len(locations) ELSE Len(weather_list)) |->
        <<locations[k], weather_list[k]>>]

\* the loop of lines 60-63 over the locations left, when requests.get ends
\* for each as resps says: the list weather_list and the dict afterwards, or
\* the exception that ended the loop
RECURSIVE fetch_each(_, _, _, _, _)
fetch_each(locations, resps, units, d, weather_list) ==
    IF locations = <<>> THEN [result |-> Return(weather_list), cache |-> d]
    ELSE LET r == get_current_weather(d, now, Head(locations), units, Head(resps), 0)
         IN  IF ~r.result.ok THEN [result |-> r.result, cache |-> r.cache]
             ELSE fetch_each(Tail(locations), Tail(resps), units, r.cache,
                             Append(weather_list, r.result.ret))

\* line 65 after the calls of lines 55-63 ended as outcome says: the list
\* results handed to the writer, or the exception that ended run_pipeline
zipped(locations, outcome) ==
    IF outcome.ok THEN Return(zip(locations, outcome.ret)) ELSE outcome

\* the answer to the request for the location at index idx: status 200 with
\* the observation of that city, or status 404
CityResponse(idx, found) ==
    IF found
    THEN [kind |-> "response", status_code |-> 200, text |-> "",
          json |-> [location |-> [country |-> JStr("UK"),
                                  name |-> JStr("City" \o ToString(idx))],
                    current |-> [temp_c |-> JNum(1000 + 100 * idx), cloud |-> JNum(75),
                                 wind_kph |-> JNum(125)]]]
    ELSE [kind |-> "response", status_code |-> 404, text |-> "Not Found"]

\* run_pipeline(units="C", use_cache=True) after the locations were read
InitPipeline ==
    /\ now = 0
    /\ threads = <<>>
    /\ cache = <<>>
    /\ has_cache = TRUE
    /\ cache_ttl = MaxTtl
    /\ default_units = "C"
    /\ last \in {[op |-> "locations_read", use_bulk |-> TRUE, locations |-> ls,
                   resp |-> resp] :
                    ls \in LocationLists, resp \in BulkResponses}
               \cup {[op |-> "locations_read", use_bulk |-> FALSE, locations |-> ls,
                     resps |-> [i \in DOMAIN ls |-> CityResponse(i - 1, found[i])]] :
                    ls \in LocationLists, found \in [1..MaxBulk -> BOOLEAN]}

RunPipelineBulk ==
    /\ last.op = "locations_read"
    /\ last.use_bulk
    /\ LET r == get_current_weather_bulk(cache, now, last.locations, Some("C"), last.resp, 0)
       IN  /\ last' = [op |-> "run_pipeline", use_bulk |-> TRUE,
                       locations |-> last.locations, resp |-> last.resp,
                       raw_results |-> r.raw_results,
                       result |-> zipped(last.locations, r.result)]
           /\ cache' = r.cache
    /\ UNCHANGED <<now, has_cache, cache_ttl, default_units, threads>>

RunPipelinePerLocation ==
    /\ last.op = "locations_read"
    /\ ~last.use_bulk
    /\ LET r == fetch_each(last.locations, last.resps, Some("C"), cache, <<>>)
       IN  /\ last' = [op |-> "run_pipeline", use_bulk |-> FALSE,
                       locations |-> last.locations, resps |-> last.resps,
                       result |-> zipped(last.locations, r.result)]
           /\ cache' = r.cache
    /\ UNCHANGED <<now, has_cache, cache_ttl, default_units, threads>>

NextPipeline == RunPipelineBulk \/ RunPipelinePerLocation

SpecPipeline == InitPipeline /\ [][NextPipeline]_vars

(***************************************************************************)
(* Properties                                                              *)
(***************************************************************************)
\* the step is a get_current_weather call on a service with a cache whose
\* location resolves to a query
CachedGetOneStep ==
    /\ last'.op = "get_current_weather"
    /\ has_cache
    /\ to_query(last'.location).ok

\* the key "{query}|units={MODE}" of the call the step makes
StepKey ==
    to_query(last'.location).ret \o "|units="
        \o Upper(IF last'.units \in {None, Some("")} THEN default_units ELSE last'.units[1])

\* C1: get(k) returns the value last set for k at every time strictly before the
\* entry's expires_at, and absent at every time at or after expires_at.
C1_GetVisibleStrictlyBeforeExpiry ==
    last.op = "get" =>
        IF last.entry # None /\ last.t < last.entry[1].expires_at
        THEN last.ret = Some(last.entry[1].value)
        ELSE last.ret = None

\* C2: with a cache, a get_current_weather that finds no entry under its key
\* calls the client exactly once and, when the client succeeds, stores what it
\* returns; a get_current_weather made strictly before the entry of its key
\* expires calls the client zero times, returns the stored value and leaves
\* the cache as it is.
C2_HitBeforeExpiry ==
    [][CachedGetOneStep =>
        /\ StepKey \notin DOMAIN cache =>
            /\ ClientCalls(last'.trace) = 1
            /\ last'.result.ok =>
                /\ StepKey \in DOMAIN cache'
                /\ cache'[StepKey].value = last'.result.ret
        /\ (StepKey \in DOMAIN cache /\ now < cache[StepKey].expires_at) =>
            /\ ClientCalls(last'.trace) = 0
            /\ last'.result = Return(cache[StepKey].value)
            /\ cache' = cache]_vars

\* a get_current_weather was answered from the cache
C2_Witness ==
    /\ last.op = "get_current_weather"
    /\ has_cache
    /\ last.result.ok
    /\ last.trace = <<"cache.get">>

\* C3: a get_current_weather made after the expiry of the entry under its key
\* calls the client exactly once and, when the client succeeds, replaces the
\* entry by the normalized observation just fetched, expiring cache_ttl after
\* the time of the store.
C3_RefetchAfterExpiry ==
    [][(CachedGetOneStep /\ StepKey \in DOMAIN cache /\ cache[StepKey].expires_at < now) =>
        /\ ClientCalls(last'.trace) = 1
        /\ last'.result.ok =>
            /\ last'.result.ret =
                 _apply_units(last'.data[1].ret, Upper(IF last'.units \in {None, Some("")}
                                                       THEN default_units ELSE last'.units[1]))
            /\ StepKey \in DOMAIN cache'
            /\ cache'[StepKey] = [value |-> last'.result.ret,
                                  expires_at |-> now' + cache_ttl]]_vars

\* an expired entry was evicted, fetched again and stored again
C3_Witness ==
    /\ last.op = "get_current_weather"
    /\ last.result.ok
    /\ last.trace = <<"cache.get", "cache.del", "client.get_current_weather", "cache.set">>

C5_StoredUnderBareQuery ==
    [][(CachedGetOneStep /\ DOMAIN cache = {} /\ last'.result.ok) =>
        LET query == to_query(last'.location).ret
        IN  /\ query \in DOMAIN cache'
            /\ MemoryCache_get(cache', query, now').ret = Some(last'.result.ret)
            /\ cache'[query].expires_at - (now' + cache_ttl) \in {-1, 0, 1}]_vars

\* the step is a get_current_weather call whose client call failed
FailedFetchStep ==
    /\ last'.op = "get_current_weather"
    /\ last'.data # None
    /\ ~last'.data[1].ok

\* C6 as stated: when the client call fails inside get_current_weather, the
\* failure reaches the caller unchanged, the client was called exactly once and
\* the cache is exactly as it was before the call.
C6_FailureLeavesCacheAsItWas ==
    [][FailedFetchStep =>
        /\ last'.result = last'.data[1]
        /\ ClientCalls(last'.trace) = 1
        /\ cache' = cache]_vars

\* C6 amended: when the client call fails inside get_current_weather, the
\* failure reaches the caller unchanged, the client was called exactly once,
\* and the cache is as it was before the call except that an expired entry
\* under the key of the call has been evicted by the lookup: no entry is under
\* that key afterwards and every other entry is unchanged.  A
\* get_current_weather that finds no entry under its key calls the client.
C6_FailureOnlyEvictsExpiredKey ==
    [][/\ FailedFetchStep =>
            /\ last'.result = last'.data[1]
            /\ ClientCalls(last'.trace) = 1
            /\ has_cache =>
                /\ DOMAIN cache' = DOMAIN cache \ {StepKey}
                /\ \A k \in DOMAIN cache' : cache'[k] = cache[k]
                /\ StepKey \in DOMAIN cache => cache[StepKey].expires_at < now
            /\ ~has_cache => cache' = cache
       /\ (CachedGetOneStep /\ StepKey \notin DOMAIN cache) =>
            ClientCalls(last'.trace) = 1]_vars

\* the client failed in a call whose lookup had evicted an expired entry
C6_Witness ==
    /\ last.op = "get_current_weather"
    /\ ~last.result.ok
    /\ last.result.err.type = "WeatherClientError"
    /\ last.trace = <<"cache.get", "cache.del", "client.get_current_weather">>

\* a string field is present: set, and not empty
PresentStr(o) == o # None /\ o[1] # ""

\* a coordinate is present: set, whatever its value
PresentNum(o) == o # None

\* the query the precedence rules of to_query give
PrecedenceQuery(loc) ==
    IF PresentNum(loc.latitude) /\ PresentNum(loc.longitude)
    THEN Return(FloatStr(loc.latitude[1]) \o "," \o FloatStr(loc.longitude[1]))
    ELSE IF PresentStr(loc.zip_code) THEN Return(loc.zip_code[1])
    ELSE IF PresentStr(loc.ip_address) THEN Return(loc.ip_address[1])
    ELSE IF PresentStr(loc.city) /\ PresentStr(loc.country)
    THEN Return(loc.city[1] \o "," \o loc.country[1])
    ELSE IF PresentStr(loc.city) /\ PresentStr(loc.state)
    THEN Return(loc.city[1] \o "," \o loc.state[1])
    ELSE IF PresentStr(loc.city) THEN Return(loc.city[1])
    ELSE IF PresentStr(loc.state) THEN Return(loc.state[1])
    ELSE IF PresentStr(loc.country) THEN Return(loc.country[1])
    ELSE Raise(InvalidLocation)

\* C7: for every combination of present and absent fields, to_query returns
\* what the first rule whose fields are present gives, in the order lat+lon,
\* zip code, IP address, city+country, city+state, city, state, country.
C7_FirstMatchPrecedence ==
    last.op = "to_query" => last.result = PrecedenceQuery(last.self)

\* C8: whenever latitude and longitude are both set, 0 included, to_query
\* returns "{lat},{lon}" whatever the other fields are.
C8_LatLonWinWhenSet ==
    (last.op = "to_query" /\ last.self.latitude # None /\ last.self.longitude # None) =>
        last.result = Return(FloatStr(last.self.latitude[1]) \o ","
                                \o FloatStr(last.self.longitude[1]))

\* no field of the location is set
NoFieldSet(loc) ==
    \A f \in DOMAIN loc : loc[f] = None

\* C9: to_query of a Location with no field set raises the invalid-location
\* error (ValueError), and get_current_weather on such a location raises that
\* same error without calling the client or the cache, the cache unchanged.
C9_EmptyLocationFailsBeforeAnyCall ==
    [][(last'.op = "get_current_weather" /\ NoFieldSet(last'.location)) =>
        /\ to_query(last'.location) = Raise(InvalidLocation)
        /\ last'.result = to_query(last'.location)
        /\ last'.trace = <<>>
        /\ cache' = cache
        /\ now' = now]_vars

\* get_current_weather failed on the empty location while the cache held an entry
C9_Witness ==
    /\ last.op = "get_current_weather"
    /\ NoFieldSet(last.location)
    /\ ~last.result.ok
    /\ has_cache
    /\ DOMAIN cache # {}

\* the temperature fields each recognized mode populates
ModeFields(units) ==
    CASE units = "C" -> {"temp_c"}
      [] units = "F" -> {"temp_f"}
      [] units = "K" -> {"temp_k"}
      [] units = "BOTH" -> {"temp_c", "temp_f"}
      [] units = "ALL" -> {"temp_c", "temp_f", "temp_k"}

\* Kelvin from the raw Celsius, else from the raw Fahrenheit, else absent
RawKelvin(wd) ==
    IF wd.temp_c # None THEN Some(wd.temp_c[1] + 27315)
    ELSE IF wd.temp_f # None THEN Some(((wd.temp_f[1] - 3200) * 5) \div 9 + 27315)
    ELSE None

\* C10: for each recognized mode, _apply_units gives Celsius and Fahrenheit
\* their raw values and Kelvin the value derived from them when the field is
\* in the mode's set, and leaves every temperature field outside the set
\* absent, whatever the raw observation carried.
C10_ExactlyTheModeFields ==
    (last.op = "_apply_units" /\ last.units \in {"C", "F", "K", "BOTH", "ALL"}) =>
        /\ last.ret.temp_c = IF "temp_c" \in ModeFields(last.units)
                             THEN last.wd.temp_c ELSE None
        /\ last.ret.temp_f = IF "temp_f" \in ModeFields(last.units)
                             THEN last.wd.temp_f ELSE None
        /\ last.ret.temp_k = IF "temp_k" \in ModeFields(last.units)
                             THEN RawKelvin(last.wd) ELSE None

\* mode C cleared the Fahrenheit and Kelvin the raw observation carried
C10_Witness ==
    /\ last.op = "_apply_units"
    /\ last.units = "C"
    /\ last.wd.temp_c # None
    /\ last.wd.temp_f # None
    /\ last.wd.temp_k # None
    /\ last.ret.temp_c = last.wd.temp_c
    /\ last.ret.temp_f = None
    /\ last.ret.temp_k = None

\* the modes _apply_units recognizes
RecognizedModes == {"C", "F", "K", "BOTH", "ALL"}

\* C11: in _apply_units of a raw observation, Kelvin is present in the result
\* only when the mode is K or ALL and Celsius or Fahrenheit is present in the
\* input; in those modes it is Celsius + 273.15 whenever Celsius is present,
\* (Fahrenheit - 32) * 5/9 + 273.15 when only Fahrenheit is, and absent when
\* both are absent.  (An observation that already carries a Kelvin is covered
\* for the recognized modes.)
C11_KelvinOnlyDerived ==
    (last.op = "_apply_units" /\ (last.units \in RecognizedModes \/ last.wd.temp_k = None)) =>
        /\ last.ret.temp_k # None =>
            /\ last.units \in {"K", "ALL"}
            /\ last.wd.temp_c # None \/ last.wd.temp_f # None
        /\ last.units \in {"K", "ALL"} =>
            last.ret.temp_k =
                IF last.wd.temp_c # None THEN Some(last.wd.temp_c[1] + 27315)
                ELSE IF last.wd.temp_f # None
                THEN Some(((last.wd.temp_f[1] - 3200) * 5) \div 9 + 27315)
                ELSE None

\* mode ALL derived Kelvin from a Celsius of 0 although Fahrenheit was present
C11_Witness ==
    /\ last.op = "_apply_units"
    /\ last.units = "ALL"
    /\ last.wd.temp_c = Some(0)
    /\ last.wd.temp_f = Some(5990)
    /\ last.ret.temp_k = Some(27315)

\* C12: for every observation and every recognized mode, applying
\* _apply_units to its own result with the same mode gives that result again.
C12_Idempotent ==
    (last.op = "_apply_units" /\ last.units \in RecognizedModes) =>
        _apply_units(last.ret, last.units) = last.ret

\* the fields of an observation that are not temperatures
NonTemperatureFields ==
    {"country", "state", "city", "time_zone", "clouds", "wind_speed_kph", "wind_degree",
     "wind_dir", "pressure_mb", "pressure_in", "precip_mm", "precip_in", "humidity",
     "feelslike_c", "feelslike_f", "vis_km", "vis_miles", "uv", "gust_kph", "gust_mph",
     "last_updated"}

\* C13: for every observation and every mode, recognized or not, the result of
\* _apply_units has exactly the fields of an observation and each of its
\* non-temperature fields equals the input's.
C13_OtherFieldsPassThrough ==
    last.op = "_apply_units" =>
        /\ DOMAIN last.ret = NonTemperatureFields \cup {"temp_c", "temp_f", "temp_k"}
        /\ \A f \in NonTemperatureFields : last.ret[f] = last.wd[f]

\* a recognized mode rebuilt an observation whose optional fields were set
C13_Witness ==
    /\ last.op = "_apply_units"
    /\ last.units = "K"
    /\ last.wd.humidity = Some(80)
    /\ last.wd.state = Some("England")
    /\ last.ret.humidity = Some(80)
    /\ last.ret # last.wd

\* C14: for every mode string outside C, F, K, BOTH, ALL, _apply_units returns
\* the observation it was given, unchanged; a get_current_weather with such a
\* mode whose client call succeeds returns the observation exactly as the
\* client parsed it (both raw temperatures kept, no Kelvin).
C14_UnknownModePassesThrough ==
    [][/\ \A wd \in Observations, units \in UnitModes \ RecognizedModes :
            _apply_units(wd, units) = wd
       /\ (/\ last'.op = "get_current_weather"
           /\ effective_units(last'.units, default_units) \notin RecognizedModes
           /\ last'.data # None
           /\ last'.data[1].ok) =>
                /\ last'.result = Return(last'.data[1].ret)
                /\ last'.result.ret.temp_k = None]_vars

\* a call with units "x" fetched an observation and returned both its temperatures
C14_Witness ==
    /\ last.op = "get_current_weather"
    /\ last.units = Some("x")
    /\ last.data # None
    /\ last.result.ok
    /\ last.result.ret.temp_c = Some(1550)
    /\ last.result.ret.temp_f = Some(5990)

\* the correlation id a response item carries (JNull when it carries none)
ItemId(item) == PyGet(IF "query" \in DOMAIN item THEN item["query"] ELSE <<>>, "custom_id")

\* the observation parsed from a response item
ItemObservation(item) ==
    LET query_block == IF "query" \in DOMAIN item THEN item["query"] ELSE <<>>
    IN  ParseWeatherData(IF "location" \in DOMAIN query_block
                         THEN query_block["location"] ELSE <<>>,
                         IF "current" \in DOMAIN query_block
                         THEN query_block["current"] ELSE <<>>)

\* the step is a fetchBulk call on locations that all resolve, answered with
\* status 200
AnsweredFetchBulk ==
    /\ last.op = "fetch_bulk"
    /\ last.locations # <<>>
    /\ \A i \in DOMAIN last.locations : to_query(last.locations[i]).ok
    /\ last.resp.kind = "response"
    /\ last.resp.status_code = 200

\* the items of the answer of the step
AnsweredItems ==
    IF "bulk" \in DOMAIN last.resp.json THEN last.resp.json["bulk"] ELSE <<>>

\* index i (from 0) of the result ret holds the observation of an item
\* carrying the id str(i), and holds None when no item carries that id
IndexedById(ret, items, i) ==
    LET carriers == {k \in DOMAIN items : ItemId(items[k]) = JStr(ToString(i))}
    IN  IF carriers = {} THEN ret[i + 1] = None
        ELSE \E k \in carriers :
                /\ ItemObservation(items[k]).ok
                /\ ret[i + 1] = Some(ItemObservation(items[k]).ret)

\* C15: after a 200 answer, fetchBulk returns a list as long as its input
\* whose index i holds the observation parsed from the item carrying the id
\* str(i), and None when no item carries that id (so items with no id or an
\* id that was not sent change nothing).
C15_ReindexedByCorrelationId ==
    AnsweredFetchBulk =>
        /\ last.result.ok
        /\ Len(last.result.ret) = Len(last.locations)
        /\ \A i \in 0..(Len(last.locations) - 1) :
                IndexedById(last.result.ret, AnsweredItems, i)

\* the same, for the calls that return
C15_ReindexedWhenReturned ==
    (AnsweredFetchBulk /\ last.result.ok) =>
        /\ Len(last.result.ret) = Len(last.locations)
        /\ \A i \in 0..(Len(last.locations) - 1) :
                IndexedById(last.result.ret, AnsweredItems, i)

\* the answer comes back in another order than the request, and has an item
\* with an id that was not sent
C15_ReorderedAnswer ==
    /\ AnsweredFetchBulk
    /\ Len(last.locations) = 3
    /\ Len(AnsweredItems) = 2
    /\ ItemId(AnsweredItems[1]) = JStr("2")
    /\ ItemId(AnsweredItems[2]) = JStr("0")
    /\ last.result.ok
    /\ last.result.ret[1] # None /\ last.result.ret[1][1].city = "City0"
    /\ last.result.ret[2] = None
    /\ last.result.ret[3] # None /\ last.result.ret[3][1].city = "City2"

Present(wd) == wd # None

\* the step is a getBulk call whose client call returned
ReturnedGetBulk ==
    /\ last.op = "get_current_weather_bulk"
    /\ last.raw_results # None
    /\ last.raw_results[1].ok

\* C16: getBulk returns the client's results that are not None, each with the
\* units applied, in the order the client returned them (the order of their
\* input locations); its length is the number of results that are not None.
C16_DropsAbsentKeepsOrder ==
    ReturnedGetBulk =>
        LET raw == last.raw_results[1].ret
            kept == SelectSeq(raw, Present)
            units == effective_units(last.units, default_units)
        IN  /\ last.result.ok
            /\ Len(last.result.ret) = Cardinality({i \in DOMAIN raw : raw[i] # None})
            /\ last.result.ret = [k \in DOMAIN kept |-> _apply_units(kept[k][1], units)]

\* index 1 of 3 is absent: two observations come back, in input order, in kelvin
C16_Witness ==
    /\ ReturnedGetBulk
    /\ Len(last.locations) = 3
    /\ last.units = Some("k")
    /\ last.raw_results[1].ret[1] # None
    /\ last.raw_results[1].ret[2] = None
    /\ last.raw_results[1].ret[3] # None
    /\ ItemId(AnsweredItems[1]) = JStr("2")
    /\ Len(last.result.ret) = 2
    /\ last.result.ret[1].city = "City0" /\ last.result.ret[1].temp_k = Some(28315)
    /\ last.result.ret[2].city = "City2"

\* the key get_current_weather uses for London with the default units
LondonKey == cache_key(to_query(London).ret, default_units)

\* the cache holds an entry for London that has not expired
LondonIsCached ==
    /\ has_cache
    /\ LondonKey \in DOMAIN cache
    /\ ~IsExpired(cache[LondonKey], now)

\* every number of calls to the client's bulk operation in a trace
ClientBulkCalls(trace) ==
    Cardinality({i \in DOMAIN trace : trace[i] = "client.get_current_weather_bulk"})

\* a getOne call that directly follows a getBulk call of the same location
\* and finds no live entry calls the client
GetOneAfterBulkMisses ==
    (/\ last.op = "get_current_weather_bulk"
     /\ last'.op = "get_current_weather"
     /\ \E i \in DOMAIN last.locations : last.locations[i] = last'.location
     /\ to_query(last'.location).ok
     /\ has_cache => MemoryCache_get(cache,
                                     cache_key(to_query(last'.location).ret,
                                               effective_units(last'.units, default_units)),
                                     now).ret = None)
        => ClientCalls(last'.trace) = 1

\* C17 as stated: a getBulk call leaves the cache as it was and always calls
\* the client's bulk operation, and a getOne call right after it still misses.
C17_BulkAlwaysCallsClient ==
    [][/\ last'.op = "get_current_weather_bulk" =>
            /\ cache' = cache
            /\ last'.trace = <<"client.get_current_weather_bulk">>
       /\ GetOneAfterBulkMisses]_vars

\* C17, amended: a getBulk call leaves the cache as it was and makes no call
\* to the cache; on a list that is not empty it calls the client's bulk
\* operation once, whatever the cache holds, and on the empty list it calls
\* nothing; a getOne call right after it still misses.
C17_BulkBypassesCache ==
    [][/\ last'.op = "get_current_weather_bulk" =>
            /\ cache' = cache
            /\ last'.trace = IF last'.locations = <<>> THEN <<>>
                             ELSE <<"client.get_current_weather_bulk">>
       /\ GetOneAfterBulkMisses]_vars

\* a getBulk call for London alone went to the client although London has a
\* live entry, and the entry is still there
C17_Witness ==
    /\ last.op = "get_current_weather_bulk"
    /\ last.locations = <<London>>
    /\ LondonIsCached
    /\ ClientBulkCalls(last.trace) = 1
    /\ last.result.ok
    /\ Len(last.result.ret) = 1

\* C18: getBulk([]) returns [] without calling the client, and fetchBulk([])
\* returns [] without an HTTP request, however the request would have ended.
C18_EmptyInputShortCircuits ==
    /\ (last.op = "get_current_weather_bulk" /\ last.locations = <<>>) =>
            /\ last.result = Return(<<>>)
            /\ last.trace = <<>>
    /\ (last.op = "fetch_bulk" /\ last.locations = <<>>) =>
            /\ last.result = Return(<<>>)
            /\ last.requests = <<>>

\* fetchBulk([]) returned [] where the request would have failed
C18_Witness ==
    /\ last.op = "fetch_bulk"
    /\ last.locations = <<>>
    /\ last.resp.kind = "exception"
    /\ last.result = Return(<<>>)
    /\ last.requests = <<>>

\* the step is a fetchOne or fetchBulk call that sent its request and got an
\* exception or a status other than 200
FailedFetch ==
    /\ last.op \in {"fetch_one", "fetch_bulk"}
    /\ last.requests # <<>>
    /\ last.resp \in FailedResponses

\* the error a failed call raises names the status and the body
CarriesStatusAndBody(err, resp) ==
    \E prefix \in {"WeatherAPI request failed: ", "Failed bulk weather request: "} :
        err.message = prefix \o ToString(resp.status_code) \o " " \o resp.text

\* the type of the error the operation op raises for the input of the step
\* when the request ends as resp says
FetchErrorType(op, resp) ==
    IF op = "fetch_one"
    THEN WeatherClient_get_current_weather(last.query, resp).err.type
    ELSE WeatherClient_get_current_weather_bulk(last.locations, resp).err.type

\* C19: fetchOne and fetchBulk return nothing when the transport fails or the
\* status is not 200; they send one request; the error of a bad status carries
\* the status and the body, and the error of a transport failure has another
\* type than the error of any bad status.
C19_DistinctErrorsNoPartialResult ==
    FailedFetch =>
        /\ ~last.result.ok
        /\ Len(last.requests) = 1
        /\ last.resp.kind = "response" => CarriesStatusAndBody(last.result.err, last.resp)
        /\ last.resp.kind = "exception" =>
                \A status \in FailedResponses :
                    status.kind = "response" =>
                        last.result.err.type # FetchErrorType(last.op, status)

\* the same without the two types: nothing is returned, one request is sent,
\* and the error of a bad status carries the status and the body
C19_NoPartialResultOneRequest ==
    FailedFetch =>
        /\ ~last.result.ok
        /\ Len(last.requests) = 1
        /\ last.resp.kind = "response" => CarriesStatusAndBody(last.result.err, last.resp)

\* C20: when requests.get raises ConnectionError, get_current_weather raises
\* an exception of the type ConnectionError.
C20_ConnectionErrorReachesCaller ==
    (/\ last.op = "fetch_one"
     /\ last.resp.kind = "exception"
     /\ last.resp.exc = "ConnectionError") =>
        /\ ~last.result.ok
        /\ last.result.err.type = "ConnectionError"

\* C21: set(k, v, ttl) at time now leaves under k exactly the entry with value
\* v and expires_at = now + ttl, whatever k held before, and leaves the entry
\* of every other key as it was.
C21_SetReplacesWholesale ==
    [][last'.op = "set" =>
        /\ DOMAIN cache' = DOMAIN cache \cup {last'.key}
        /\ cache'[last'.key] = [value |-> last'.value, expires_at |-> now + last'.ttl]
        /\ \A k \in DOMAIN cache \ {last'.key} : cache'[k] = cache[k]
        /\ MemoryCache_get(cache', last'.key, now).ret = Some(last'.value)]_vars

\* a set replaced an entry that had not expired by another value with an
\* earlier expiry, next to an entry under another key
C21_Witness ==
    /\ last.op = "set"
    /\ last.before # None
    /\ ~IsExpired(last.before[1], last.t)
    /\ last.before[1].value # last.value
    /\ last.t + last.ttl < last.before[1].expires_at
    /\ cache[last.key] = [value |-> last.value, expires_at |-> last.t + last.ttl]
    /\ DOMAIN cache = CacheKeys

\* the unit mode the claim gives a call: the units given, uppercased, or the
\* configured default when none were given
ClaimedMode(units) == Upper(IF units = None THEN default_units ELSE units[1])

\* the answer to a bulk request for one location that holds the payload p
BulkAnswerOf(p) ==
    [kind |-> "response", status_code |-> 200, text |-> "",
     json |-> [bulk |-> <<[query |-> [custom_id |-> JStr("0"), location |-> p.location,
                                      current |-> p.current]]>>]]

\* C22: getOne and getBulk work in the mode of the units given, uppercased, or
\* of the configured default, which is stored uppercased: getOne reads and
\* writes the cache under "{query}|units={MODE}" only, getBulk returns the
\* client's observations in that mode, and a getOne that directly follows a
\* getOne for the same location whose units differ by case only is a cache
\* hit: it makes no client call and returns an equal result.
C22_UnitsCaseInsensitive ==
    [][/\ default_units = Upper(default_units)
       /\ CachedGetOneStep =>
            LET key == to_query(last'.location).ret \o "|units=" \o ClaimedMode(last'.units)
            IN  /\ \A k \in DOMAIN cache \ {key} : k \in DOMAIN cache' /\ cache'[k] = cache[k]
                /\ DOMAIN cache' \subseteq DOMAIN cache \cup {key}
                /\ (last'.result.ok /\ ClientCalls(last'.trace) = 1) =>
                        /\ key \in DOMAIN cache'
                        /\ last'.result.ret = _apply_units(last'.data[1].ret,
                                                           ClaimedMode(last'.units))
       /\ \A units \in CaseUnitArgs, p \in Payloads :
            get_current_weather_bulk(cache, now, <<London>>, units, BulkAnswerOf(p), 0).result
                = Return(<<_apply_units(ParseWeatherData(p.location, p.current).ret,
                                        ClaimedMode(units))>>)
       /\ (/\ CachedGetOneStep
           /\ last.op = "get_current_weather"
           /\ last.result.ok
           /\ last.location = last'.location
           /\ {last.units, last'.units} = {Some("c"), Some("C")}) =>
            /\ ClientCalls(last'.trace) = 0
            /\ last'.result = last.result]_vars

\* getOne(London, "C") was answered from the entry that getOne(London, "c")
\* stored, on a service whose default is another mode
C22_Witness ==
    /\ last.op = "get_current_weather"
    /\ last.units = Some("C")
    /\ default_units = "K"
    /\ last.trace = <<"cache.get">>
    /\ last.result.ok
    /\ DOMAIN cache = {"London|units=C"}

\* C23: on a service without a cache, every get_current_weather whose location
\* resolves to a query calls the client exactly once and nothing else,
\* however many calls for the same location and units came before.
C23_NoCacheAlwaysFetches ==
    [][(last'.op = "get_current_weather" /\ ~has_cache /\ to_query(last'.location).ok) =>
        /\ last'.trace = <<"client.get_current_weather">>
        /\ ClientCalls(last'.trace) = 1
        /\ cache' = cache]_vars

\* the third call in a row for London in the default units went to the client
C23_Witness ==
    /\ last.op = "get_current_weather"
    /\ ~has_cache
    /\ last.location = London
    /\ last.units = None
    /\ last.earlier = 2
    /\ last.result.ok
    /\ ClientCalls(last.trace) = 1

\* C24: a get(k) that finds an entry whose expiry has come (now >= expires_at)
\* removes that entry and no other and returns absent; every other get leaves
\* the map as it is; a set removes no entry; and the map does not change
\* while time passes.
C24_LazyEvictionOnRead ==
    [][/\ last'.op = "get" =>
            IF last'.key \in DOMAIN cache /\ now >= cache[last'.key].expires_at
            THEN cache' = DictDel(cache, last'.key) /\ last'.ret = None
            ELSE cache' = cache
       /\ last'.op = "set" => DOMAIN cache \subseteq DOMAIN cache'
       /\ last'.op = "tick" => cache' = cache]_vars

\* the same with the test of the code: the expiry has passed (now > expires_at)
C24_LazyEvictionAfterExpiry ==
    [][/\ last'.op = "get" =>
            IF last'.key \in DOMAIN cache /\ now > cache[last'.key].expires_at
            THEN cache' = DictDel(cache, last'.key) /\ last'.ret = None
            ELSE cache' = cache
       /\ last'.op = "set" => DOMAIN cache \subseteq DOMAIN cache'
       /\ last'.op = "tick" => cache' = cache]_vars

\* the permutations of 1..n
Orders(n) == {p \in [1..n -> 1..n] : \A i, j \in 1..n : p[i] = p[j] => i = j}

\* what fetchBulk gives for the input of the step when the answer holds items
AnswerTo(items) ==
    WeatherClient_get_current_weather_bulk(
        last.locations, [last.resp EXCEPT !.json = [bulk |-> items]])

\* the step is a fetchBulk call answered with status 200 and a "bulk" array
AnsweredWithItems ==
    /\ AnsweredFetchBulk
    /\ "bulk" \in DOMAIN last.resp.json

\* whatever the order of the items of the answer, fetchBulk gives the same
SameForEveryOrder ==
    \A p \in Orders(Len(AnsweredItems)) :
        AnswerTo([k \in DOMAIN AnsweredItems |-> AnsweredItems[p[k]]]) = last.result

\* no two items of the answer carry the same id of the request
SentIdsOnce ==
    \A j, k \in DOMAIN AnsweredItems :
        (/\ j # k
         /\ ItemId(AnsweredItems[j]) = ItemId(AnsweredItems[k]))
            => InvalidCustomId(ItemId(AnsweredItems[j]), id_to_index(last.locations))

\* C25 as stated: fetchBulk gives the same for every permutation of the items
\* of the answer.
C25_SameForEveryPermutation ==
    AnsweredWithItems => SameForEveryOrder

\* C25, amended: fetchBulk gives the same for every permutation of the items
\* of an answer in which no id of the request comes twice.
C25_SameForEveryPermutationOfDistinctIds ==
    (AnsweredWithItems /\ SentIdsOnce) => SameForEveryOrder

\* the answer came back in reverse order and each index holds its own city
C25_Witness ==
    /\ AnsweredWithItems
    /\ Len(last.locations) = 2
    /\ Len(AnsweredItems) = 2
    /\ ItemId(AnsweredItems[1]) = JStr("1")
    /\ ItemId(AnsweredItems[2]) = JStr("0")
    /\ last.result.ok
    /\ last.result.ret[1] # None /\ last.result.ret[1][1].city = "City0"
    /\ last.result.ret[2] # None /\ last.result.ret[2][1].city = "City1"

\* the step is a getBulk call on locations that all resolve, answered with
\* status 200
AnsweredGetBulk ==
    /\ last.op = "get_current_weather_bulk"
    /\ last.locations # <<>>
    /\ \A i \in DOMAIN last.locations : to_query(last.locations[i]).ok
    /\ last.resp.kind = "response"
    /\ last.resp.status_code = 200

\* the items of the answer that carry an id of the request but no observation
\* can be built from them
FailedItems ==
    {k \in DOMAIN AnsweredItems :
        /\ ~InvalidCustomId(ItemId(AnsweredItems[k]), id_to_index(last.locations))
        /\ ~ItemObservation(AnsweredItems[k]).ok}

\* the items of the answer that carry the id str(i) and an observation
GoodItems(i) ==
    {k \in DOMAIN AnsweredItems :
        /\ ItemId(AnsweredItems[k]) = JStr(ToString(i))
        /\ ItemObservation(AnsweredItems[k]).ok}

\* C26: when an item of the answer carries an id of the request but no usable
\* location block, fetchBulk still returns: the index of every id that comes
\* with an observation is populated and every other index is absent; and
\* getBulk returns the populated entries instead of raising.
C26_FailedSubResultIsAbsent ==
    /\ (AnsweredFetchBulk /\ FailedItems # {}) =>
            /\ last.result.ok
            /\ \A i \in 0..(Len(last.locations) - 1) :
                    last.result.ret[i + 1] # None <=> GoodItems(i) # {}
    /\ (AnsweredGetBulk /\ FailedItems # {}) =>
            /\ last.result.ok
            /\ Len(last.result.ret) =
                    Cardinality({i \in 0..(Len(last.locations) - 1) : GoodItems(i) # {}})

\* the observation a parse step gave, when it gave one
ParsedObservation ==
    IF last.op = "parse_one" THEN last.result.ret ELSE last.result.ret[1][1]

\* the parse step gave an observation in which every field of fields that
\* came missing, null or blank is absent and every other holds its number
BlankFieldsAbsent(fields) ==
    /\ last.result.ok
    /\ last.op = "parse_bulk" => last.result.ret[1] # None
    /\ \A key \in fields :
            IF last.shapes[key] = 3
            THEN ParsedObservation[key] = Some(last.current_block[key].v)
            ELSE ParsedObservation[key] = None

\* C27: both parsers give an observation for every payload, in which every
\* optional numeric field that came blank (or null, or not at all) is absent,
\* temp_c and temp_f included.
C27_BlankNumericIsAbsent ==
    last.op \in {"parse_one", "parse_bulk"} =>
        BlankFieldsAbsent({"temp_c", "temp_f", "humidity", "pressure_mb"})

\* the same for the payloads whose temp_c and temp_f are not blank
C27_BlankIsAbsentOutsideTemperatures ==
    (/\ last.op \in {"parse_one", "parse_bulk"}
     /\ last.shapes.temp_c # 2
     /\ last.shapes.temp_f # 2) =>
        BlankFieldsAbsent({"temp_c", "temp_f", "humidity", "pressure_mb"})

\* thread t has returned from a call
Returned(t) == threads[t].pc = "idle" /\ threads[t].result # None

\* every entry of the dict is whole
WellFormedCache ==
    \A k \in DOMAIN cache : DOMAIN cache[k] = {"value", "expires_at"}

\* every get that returned gave absent or a value that a set stored under
\* its key
GetsReturnStoredValues ==
    \A t \in DOMAIN threads :
        (Returned(t) /\ threads[t].op = "get" /\ threads[t].result[1].ok) =>
            \/ threads[t].result[1].ret = None
            \/ <<threads[t].key, threads[t].result[1].ret[1]>> \in last.stored

\* C28: whatever the interleaving of the get and set calls of the threads, no
\* call raises, every entry of the dict is whole, and every get returns
\* absent or a value that a set stored under its key.
C28_NoErrorUnderInterleaving ==
    /\ \A t \in DOMAIN threads : Returned(t) => threads[t].result[1].ok
    /\ WellFormedCache
    /\ GetsReturnStoredValues

\* the same without the errors: the dict stays whole and a get gives only
\* values that were stored under its key
C28_DictWholeAndValuesStored ==
    WellFormedCache /\ GetsReturnStoredValues

\* the time at which the observation of the entry under key k came back from
\* the client: the entry was stored at that time and expires cache_ttl later
FetchedAt(d, k) == d[k].expires_at - cache_ttl

\* C29: every observation get_current_weather returns came back from the
\* client at most cache_ttl seconds before it is returned: a call that goes
\* to the client returns what the client just gave and stores it with the
\* time of its return, and a call answered from the cache returns an entry
\* that was fetched at most cache_ttl seconds ago.
C29_FreshWithinTtl ==
    [][(CachedGetOneStep /\ last'.result.ok) =>
        IF ClientCalls(last'.trace) = 1
        THEN /\ last'.result.ret =
                    _apply_units(last'.data[1].ret,
                                 effective_units(last'.units, default_units))
             /\ FetchedAt(cache', StepKey) = now'
        ELSE /\ StepKey \in DOMAIN cache
             /\ last'.result.ret = cache[StepKey].value
             /\ FetchedAt(cache, StepKey) <= now'
             /\ now' - FetchedAt(cache, StepKey) <= cache_ttl]_vars

\* an observation was served from the cache exactly cache_ttl seconds after
\* it was fetched
C29_Witness ==
    /\ last.op = "get_current_weather"
    /\ has_cache
    /\ last.result.ok
    /\ last.trace = <<"cache.get">>
    /\ \E k \in DOMAIN cache :
            /\ cache[k].value = last.result.ret
            /\ now - FetchedAt(cache, k) = cache_ttl

\* the observation that was retrieved for the location at position k of the
\* run: in bulk mode what the client's list holds at k, with the units
\* applied; in per-location mode the parse of the answer to request k
RetrievedFor(k) ==
    IF last.use_bulk
    THEN IF last.raw_results[1].ret[k] = None THEN None
         ELSE Some(_apply_units(last.raw_results[1].ret[k][1], "C"))
    ELSE Some(_apply_units(
            WeatherClient_get_current_weather(to_query(last.locations[k]).ret,
                                              last.resps[k]).ret, "C"))

\* every pair handed to the writer holds the location at its position and
\* the observation retrieved for it
PairsAligned ==
    \A k \in DOMAIN last.result.ret :
        /\ last.result.ret[k][1] = last.locations[k]
        /\ RetrievedFor(k) = Some(last.result.ret[k][2])

\* C30: in both modes, every pair run_pipeline hands to the CSV writer holds a
\* location and the observation that was retrieved for that location.
C30_PairsLocationWithItsObservation ==
    (last.op = "run_pipeline" /\ last.result.ok) => PairsAligned

\* the same for the runs in which the bulk result dropped nothing
C30_AlignedWhenNothingDropped ==
    (/\ last.op = "run_pipeline"
     /\ last.result.ok
     /\ last.use_bulk => Len(last.result.ret) = Len(last.locations)) => PairsAligned

====
